---- MODULE Spec2Model ----
(***************************************************************************)
(* A model of scripts/copy_parent_workitems_with_children.py: the engine   *)
(* that copies "Work Bundle" roots, their hierarchical children and their  *)
(* related items from a source project to a target project, using the     *)
(* field Custom.ReflectedWorkItemId of the target as correlation.          *)
(*                                                                         *)
(* One step of the model is one remote call of the script (a WIQL query,  *)
(* a batch get, a create, a patch) together with the local code that      *)
(* follows it up to the next remote call.  A remote call may also raise,  *)
(* which ends the run in the error exit of the __main__ block.            *)
(***************************************************************************)
EXTENDS Integers, Sequences, FiniteSets, TLC

\* ------------------------------------------------------------ bounds

\* Runs of the script started in one behaviour (over all instances).
MaxRuns == 2
\* Ids the source server returns for one WIQL query (its result limit).
PageSize == 1
\* Segments of a path, and of a root label, given to remap_root on its own.
MaxSegs == 3
MaxRootSegs == 2
\* The entries of a discussion thread or of a revision history given to
\* get_comments on its own.
MaxEntries == 2
\* The greatest --top given to copy_last_workbundles.py.
MaxTop == 2

\* The ids of the source project, and the engine instances (processes).
SrcIds == 1..3
Instances == {1, 2}

\* ------------------------------------------------- module constants

REFLECTED == "Custom.ReflectedWorkItemId"
PARENT_TYPES == {"Work Bundle", "Workbundle", "WorkBundle"}
TARGET_PARENT_TYPE == "Work Bundle"
CHILD_TYPE_MAP == [t \in {"User Story", "Issue"} |-> "User Story"]

\* conn_src.project, and area_root / iter_root of main (the target project
\* when --target-area-root / --target-iteration-root are not given).
SRC_PROJECT == "Src"
TGT_PROJECT == "Tgt"
area_root == <<TGT_PROJECT>>
iter_root == <<TGT_PROJECT>>

\* ------------------------------------------------ string operations

\* str.lower() on the strings of the model.
Lower(s) ==
  CASE s = "Work Bundle" -> "work bundle"
    [] s = "User Story" -> "user story"
    [] s = "USER STORY" -> "user story"
    [] s = "Issue" -> "issue"
    [] s = "ISSUE" -> "issue"
    [] s = " Issue " -> " issue "
    [] s = "Bug" -> "bug"
    [] s = "Src" -> "src"
    [] s = "SRC" -> "src"
    [] s = "Tgt" -> "tgt"
    [] s = "TeamA" -> "teama"
    [] s = "System.LinkTypes.Hierarchy-Forward" -> "system.linktypes.hierarchy-forward"
    [] s = "System.LinkTypes.Hierarchy-Reverse" -> "system.linktypes.hierarchy-reverse"
    [] s = "System.LinkTypes.Related" -> "system.linktypes.related"
    [] s = "AttachedFile" -> "attachedfile"
    [] OTHER -> s

\* str.strip() on the strings of the model.
Strip(s) ==
  CASE s = " Issue " -> "Issue"
    [] s = " issue " -> "issue"
    [] s = " " -> ""
    [] OTHER -> s

\* CHILD_TYPE_MAP_LOWER = {k.lower(): v for k, v in CHILD_TYPE_MAP.items()}
CHILD_TYPE_MAP_LOWER ==
  [k \in {Lower(t) : t \in DOMAIN CHILD_TYPE_MAP} |->
     CHILD_TYPE_MAP[CHOOSE t \in DOMAIN CHILD_TYPE_MAP : Lower(t) = k]]

\* dict.get(k, d) and (dict.get(k) or "") of a field map.
Get(f, k, d) == IF k \in DOMAIN f THEN f[k] ELSE d
GetOrEmpty(f, k) == IF k \in DOMAIN f THEN f[k] ELSE ""

\* Mutant: every linked item maps to a target type.
map_type_unfiltered(cf) == "User Story"

\* The type mapper of main, lines 309-310 and 344-345: the target type of a
\* linked item, "" when CHILD_TYPE_MAP_LOWER has no such key (.get gives None).
map_type(cf) ==
  LET src_type == Strip(GetOrEmpty(cf, "System.WorkItemType"))
  IN  Get(CHILD_TYPE_MAP_LOWER, Lower(src_type), "")

\* int(href.rsplit("/", 1)[-1]): the id a relation's url ends with, 0 when
\* int() raises (the relation is skipped).
ParseInt(s) ==
  IF \E n \in 1..9 : ToString(n) = s THEN CHOOSE n \in 1..9 : ToString(n) = s ELSE 0

\* A path, and a root label, is the list of its backslash-delimited
\* segments (str.split("\\") of the string, so the empty string is the one
\* empty segment); None is the empty list, which no string splits to.
NonePath == << >>
GetPath(f, k) == IF k \in DOMAIN f THEN f[k] ELSE NonePath

\* Mutant: remap_root without parts.insert(0, tgt_root).
remap_root_no_insert(src_path, src_root, tgt_root) ==
  IF src_path = NonePath \/ src_path = <<"">> THEN tgt_root
  ELSE IF <<Lower(src_path[1])>> = [k \in 1..Len(src_root) |-> Lower(src_root[k])]
  THEN tgt_root \o Tail(src_path)
  ELSE src_path

\* Mutant: the first segment is compared with the source root as written.
remap_root_case_sensitive(src_path, src_root, tgt_root) ==
  IF src_path = NonePath \/ src_path = <<"">> THEN tgt_root
  ELSE IF <<src_path[1]>> = src_root THEN tgt_root \o Tail(src_path)
  ELSE tgt_root \o src_path

\* remap_root: parts[0], a single segment, is compared with the whole source
\* root; the join puts the segments of the target root in front.
remap_root(src_path, src_root, tgt_root) ==
  IF src_path = NonePath \/ src_path = <<"">> THEN tgt_root
  ELSE LET parts == src_path
       IN  IF <<Lower(parts[1])>> = [k \in 1..Len(src_root) |-> Lower(src_root[k])]
           THEN tgt_root \o Tail(parts)
           ELSE tgt_root \o parts

\* ------------------------------------------------------- the source

\* The fields batch_get returns for a source item, besides its type: an
\* absent key is a field the server does not return.
SrcFields(id) ==
  CASE id = 1 -> [t \in {"System.Title", "System.Description", "System.AreaPath"} |->
                    CASE t = "System.Title" -> "T1"
                      [] t = "System.Description" -> "D1"
                      [] t = "System.AreaPath" -> <<"Src", "TeamA">>]
    [] id = 2 -> [t \in {"System.Tags", "System.AreaPath", "System.IterationPath"} |->
                    CASE t = "System.Tags" -> "x; y"
                      [] t = "System.AreaPath" -> <<"Other", "TeamA">>
                      [] t = "System.IterationPath" -> <<"SRC">>]
    [] OTHER  -> [t \in {"System.Title", "System.Description", "System.IterationPath"} |->
                    CASE t = "System.Title" -> "T3"
                      [] t = "System.Description" -> ""
                      [] t = "System.IterationPath" -> <<"">>]

\* The discussion thread of a source item (the "comments" of the comments
\* endpoint) and the System.History texts of its revisions; the comment of
\* item 3 is also the history text of one of its revisions.
SrcComments(id) ==
  CASE id = 1 -> <<[text |-> "c1"], [text |-> ""]>>
    [] id = 3 -> <<[text |-> "c3"]>>
    [] OTHER  -> << >>
SrcRevisions(id) ==
  CASE id = 1 -> <<[text |-> "h1"]>>
    [] id = 3 -> <<[text |-> ""], [text |-> "c3"]>>
    [] OTHER  -> << >>

\* The relation names a source item's relations carry, and the last path
\* segment of a relation's url ("x": not a number, as an attachment's).
HIER_FWD == "System.LinkTypes.Hierarchy-Forward"
HIER_REV == "System.LinkTypes.Hierarchy-Reverse"
RELATED == "System.LinkTypes.Related"

\* "hierarchy-forward" in rel, and rel.endswith("related"), of a lowered name.
ContainsHierarchyForward(rel) == rel \in {"system.linktypes.hierarchy-forward"}
EndsWithRelated(rel) == rel \in {"system.linktypes.related"}

\* The relations one link choice of a root towards item t stands for.  With
\* "both" the Related relation comes first in the list.
LinkSeq(choice, t) ==
  CASE choice = "hf"   -> <<[rel |-> HIER_FWD, url |-> ToString(t)]>>
    [] choice = "rel"  -> <<[rel |-> RELATED, url |-> ToString(t)]>>
    [] choice = "both" -> <<[rel |-> RELATED, url |-> ToString(t)],
                            [rel |-> HIER_FWD, url |-> ToString(t)]>>
    [] OTHER           -> << >>

\* Relations every item carries besides its links: a parent link, an
\* attachment (its url ends with no number) and a Related link to an id the
\* source no longer holds.
NoiseRels(id) ==
  IF id = 2
  THEN <<[rel |-> HIER_REV, url |-> "3"], [rel |-> "AttachedFile", url |-> "x"],
         [rel |-> RELATED, url |-> "9"]>>
  ELSE <<[rel |-> HIER_REV, url |-> "3"]>>

LinkPairs == {<<1, 2>>, <<1, 3>>, <<2, 1>>, <<2, 3>>}
LinkChoices == {"none", "hf", "rel", "both"}

\* The source graphs of the model: item 1 is a root, item 2 a root or a
\* story, item 3 a linked item of a mapped or an unmapped type.  A Related
\* link between two roots is held by both (the server keeps it symmetric).
\* A story linked to root 1 may itself hold a link to item 3, which is then
\* linked to no root, and hold the Related link of root 1 from its side.
\* An item 3 of an unmapped type is the child or a related item of root 1,
\* and may be a child of a root 2.
TypeChoices ==
  {ty \in [SrcIds -> {"Work Bundle", "User Story", "issue", "Bug"}] :
     /\ ty[1] = "Work Bundle"
     /\ ty[2] \in {"Work Bundle", "User Story"}
     /\ ty[3] \in {"issue", "Bug"}}

GraphOk(ty, ch) ==
  /\ ch[<<2, 1>>] \in {"none", "rel"}
  /\ ty[2] \notin PARENT_TYPES =>
       \/ ch[<<2, 1>>] = "none" /\ ch[<<2, 3>>] = "none"
       \/ /\ ch[<<1, 2>>] # "none" /\ ch[<<1, 3>>] = "none" /\ ty[3] = "issue"
          /\ ch[<<2, 3>>] \in {"hf", "rel"}
          /\ ch[<<2, 1>>] = IF ch[<<1, 2>>] = "hf" THEN "none" ELSE "rel"
  /\ ty[2] \in PARENT_TYPES => ch[<<1, 2>>] \in {"none", "rel"} /\ ch[<<2, 1>>] = ch[<<1, 2>>]
  /\ ty[3] = "Bug" => ch[<<1, 3>>] \in {"hf", "rel"} /\ ch[<<2, 3>>] \in {"none", "hf"}

MkGraph(ty, ch) ==
  [type |-> ty, limit |-> PageSize,
   rels |-> [id \in SrcIds |->
               CASE id = 1 -> LinkSeq(ch[<<1, 2>>], 2) \o NoiseRels(1) \o LinkSeq(ch[<<1, 3>>], 3)
                 [] id = 2 -> LinkSeq(ch[<<2, 1>>], 1) \o NoiseRels(2) \o LinkSeq(ch[<<2, 3>>], 3)
                 [] OTHER  -> NoiseRels(id)]]

Graphs ==
  {MkGraph(ty, ch) : <<ty, ch>> \in
     {tc \in TypeChoices \X [LinkPairs -> LinkChoices] : GraphOk(tc[1], tc[2])}}

\* The command lines of the model: --max, --start-id (0: not given),
\* --force-root and --with-comments; --dry-run is chosen per run.
ArgSets ==
  [max_items : {0, 1}, start_id : {0, 2}, force_root : BOOLEAN, with_comments : BOOLEAN]

\* ------------------------------------------------------- the target

\* A target work item: its type, the fields of its create patch, its parent
\* (the Hierarchy-Reverse relation, 0: none), its Related relations and its
\* System.History notes.  A work item's id is its place in target.  The
\* target starts empty; when source item 3 is of an unmapped type it starts
\* with an item that carries the correlation value of item 3, from before
\* the source item's type changed.
PreExisting ==
  [type |-> "User Story", fields |-> (REFLECTED :> "3"), parent |-> 0,
   related |-> << >>, history |-> << >>]
InitTarget(g) ==
  IF Lower(g.type[3]) \in DOMAIN CHILD_TYPE_MAP_LOWER THEN << >> ELSE <<PreExisting>>

VARIABLES
  src,        \* the source graph (never written)
  args,       \* the command line shared by the runs of the behaviour
  target,     \* the work items of the target project
  eng,        \* per instance: the locals of main and of its generator
  runs,       \* runs started so far
  writes,     \* history: the mutating remote calls issued so far
  completed,  \* history: a non-dry run has ended with its summary
  aborted,    \* history: a non-dry run has ended in the error exit after a write
  drysum,     \* history: the summary of the last complete dry run
  call        \* a call of a function of the script on its own: arguments and result

vars == <<src, args, target, eng, runs, writes, completed, aborted, drysum, call>>

NoCall == [pc |-> "none"]

Idle ==
  [pc |-> "idle", dry |-> FALSE, last_id |-> 0, fetched |-> 0, page |-> << >>,
   pid |-> 0, tgt_parent |-> 0, children |-> {}, related |-> {},
   cur |-> 0, tgt_cur |-> 0, role |-> "", todo |-> << >>,
   created_parent |-> 0, created_other |-> 0, related_links |-> 0,
   dec |-> {}, wrote |-> FALSE, after_complete |-> FALSE, failed |-> FALSE,
   cmp |-> [valid |-> FALSE, created_parent |-> 0, created_other |-> 0,
            related_links |-> 0, dec |-> {}]]

NoSummary == Idle.cmp

Init ==
  /\ src \in Graphs
  /\ args \in ArgSets
  /\ target = InitTarget(src)
  /\ eng = [i \in Instances |-> Idle]
  /\ runs = 0
  /\ writes = {}
  /\ completed = FALSE
  /\ aborted = FALSE
  /\ drysum = NoSummary
  /\ call = NoCall

\* ------------------------------------------- the remote operations

RECURSIVE Ascending(_, _)
\* The n least elements of a set of ids, in ascending order.
Ascending(S, n) ==
  IF S = {} \/ n = 0 THEN << >>
  ELSE LET m == CHOOSE x \in S : \A y \in S : x <= y
       IN  <<m>> \o Ascending(S \ {m}, n - 1)

\* Mutant: the query asks for [System.Id] >= last_id.
wiql_parents_at_or_above(g, last_id) ==
  Ascending({id \in SrcIds : g.type[id] \in PARENT_TYPES /\ id >= last_id}, g.limit)

\* The page one query of iterate_parent_ids returns: the ids of the parent
\* types above last_id, ascending, cut at the server's result limit.
wiql_parents(g, last_id) ==
  Ascending({id \in SrcIds : g.type[id] \in PARENT_TYPES /\ id > last_id}, g.limit)

\* batch_get(conn_src, [id], fields).get("value", []): one item, or none for
\* an id the source does not hold.
batch_get(g, id) ==
  IF id \in SrcIds
  THEN <<[fields |-> SrcFields(id) @@ ("System.WorkItemType" :> g.type[id])]>>
  ELSE << >>

\* Mutant: the generator ignores --start-id.
iterate_start_ignored(start_id) == 0

\* The first value of the generator's last_id.
iterate_start(start_id) == IF start_id > 0 THEN start_id - 1 ELSE 0

\* Mutant: get_children_related without "related -= children".
get_children_related_keep(rels) ==
  LET parsed == {k \in 1..Len(rels) : ParseInt(rels[k].url) # 0}
      fwd == {k \in parsed : ContainsHierarchyForward(Lower(rels[k].rel))}
      oth == {k \in parsed \ fwd : EndsWithRelated(Lower(rels[k].rel))}
  IN  [children |-> {ParseInt(rels[k].url) : k \in fwd},
       related |-> {ParseInt(rels[k].url) : k \in oth}]

\* Mutant: the relations of item 2 are read along with the root's.
relations_followed(g, parent_id) ==
  g.rels[parent_id] \o (IF parent_id # 2 THEN g.rels[2] ELSE << >>)

\* wi.get("relations") of the GET of get_children_related, lines 144-147:
\* the relations of the one work item asked for.
relations(g, parent_id) == g.rels[parent_id]

\* get_children_related on the relations of the fetched work item.
get_children_related(rels) ==
  LET parsed == {k \in 1..Len(rels) : ParseInt(rels[k].url) # 0}
      fwd == {k \in parsed : ContainsHierarchyForward(Lower(rels[k].rel))}
      oth == {k \in parsed \ fwd : EndsWithRelated(Lower(rels[k].rel))}
      children == {ParseInt(rels[k].url) : k \in fwd}
      related == {ParseInt(rels[k].url) : k \in oth}
  IN  [children |-> children, related |-> related \ children]

\* Mutant: the lookup never finds a target item.
find_always_none(tgt, source_id) == {0}

\* find_target_by_reflected: the values the call may return, 0 for None.  The
\* query has no ORDER BY, so with several matches ids[0] is any of them.
find_target_by_reflected(tgt, source_id) ==
  LET ids == {t \in 1..Len(tgt) :
                /\ REFLECTED \in DOMAIN tgt[t].fields
                /\ tgt[t].fields[REFLECTED] = ToString(source_id)}
  IN  IF ids = {} THEN {0} ELSE ids

\* create_work_item: the target after the create; the new item's id is
\* Len of it.  parent_id 0 is None.
create_work_item(tgt, type_name, fields, parent_id) ==
  Append(tgt, [type |-> type_name, fields |-> fields, parent |-> parent_id,
               related |-> << >>, history |-> << >>])

add_related_link(tgt, tgt_parent, tgt_other) ==
  [tgt EXCEPT ![tgt_parent].related = Append(@, tgt_other)]

\* Mutant: the history patch clears the correlation field.
push_history_clears(tgt, tgt_wid, text) ==
  [tgt EXCEPT ![tgt_wid] =
     [type |-> tgt[tgt_wid].type,
      fields |-> [k \in DOMAIN tgt[tgt_wid].fields \ {REFLECTED} |-> tgt[tgt_wid].fields[k]],
      parent |-> tgt[tgt_wid].parent, related |-> tgt[tgt_wid].related,
      history |-> Append(tgt[tgt_wid].history, text)]]

push_history(tgt, tgt_wid, text) ==
  [tgt EXCEPT ![tgt_wid].history = Append(@, text)]

\* get_comments: the discussion thread when a comments request answers,
\* else the entries rebuilt from the revisions that carry a history text.
get_comments(wid, discussion_ok) ==
  IF discussion_ok THEN SrcComments(wid)
  ELSE SelectSeq(SrcRevisions(wid), LAMBDA r : r.text # "")

\* The texts main pushes, in order: those of the entries with a text.
TextsOf(comments) ==
  LET kept == SelectSeq(comments, LAMBDA c : c.text # "")
  IN  [k \in 1..Len(kept) |-> kept[k].text]

\* ------------------------------------------------ the fields of main

\* Mutant: the fields of a create without the correlation value.
create_fields_uncorrelated(f, sid, force_root) ==
  ("System.Title" :> Get(f, "System.Title", "Migrated " \o ToString(sid)))
  @@ ("System.Description" :> GetOrEmpty(f, "System.Description"))
  @@ ("System.Tags" :> GetOrEmpty(f, "System.Tags"))
  @@ ("System.AreaPath" :> area_root)
  @@ ("System.IterationPath" :> iter_root)

\* The fields dict of a create, lines 271-282, 318-325 and 351-358.
create_fields(f, sid, force_root) ==
  ("System.Title" :> Get(f, "System.Title", "Migrated " \o ToString(sid)))
  @@ ("System.Description" :> GetOrEmpty(f, "System.Description"))
  @@ ("System.Tags" :> GetOrEmpty(f, "System.Tags"))
  @@ (REFLECTED :> ToString(sid))
  @@ ("System.AreaPath" :>
        IF force_root THEN area_root
        ELSE remap_root(GetPath(f, "System.AreaPath"), <<SRC_PROJECT>>, area_root))
  @@ ("System.IterationPath" :>
        IF force_root THEN iter_root
        ELSE remap_root(GetPath(f, "System.IterationPath"), <<SRC_PROJECT>>, iter_root))

\* Mutants: the create of a child, of a related item, without its dry-run test.
child_dry_run_ignored(e) == FALSE
related_dry_run_ignored(e) == FALSE

\* The tests of main that decide a write.
parent_dry_run(e) == e.dry
child_dry_run(e) == e.dry
related_dry_run(e) == e.dry
\* Mutant: the related link is added whatever the two ids are.
link_guard_always(e) == TRUE

comments_guard(e, tgt_id) == args.with_comments /\ ~e.dry /\ tgt_id > 0
link_guard(e) == ~e.dry /\ e.tgt_parent > 0 /\ e.tgt_cur > 0
child_parent_id(e) == IF e.tgt_parent > 0 THEN e.tgt_parent ELSE 0

\* ------------------------------------------------- control of main

\* The two connections of main.
conn_src == "source"
conn_tgt == "target"

\* Mutant: push_history is given the source connection.
write_conn_history_source(op) == IF op = "history" THEN conn_src ELSE conn_tgt

\* The connection main passes to create_work_item (lines 287, 329, 362), to
\* push_history (lines 299, 336) and to add_related_link (line 367).
write_conn(op) ==
  CASE op = "create"  -> conn_tgt
    [] op = "history" -> conn_tgt
    [] op = "related" -> conn_tgt

\* The write records of the history variable: the instance and the root it
\* was processing, the source id the write is for, the target id written
\* to (the new id, for a create) and the target id the written relation
\* refers to (0: none).
Write(i, op, e, sid, role, tgt_id, ref) ==
  [inst |-> i, op |-> op, conn |-> write_conn(op), dry |-> e.dry, root |-> e.pid,
   sid |-> sid, role |-> role, tgt |-> tgt_id, ref |-> ref]

Decide(e, role, sid, branch) == e.dec \cup {<<role, e.pid, sid, branch>>}

\* Mutant: the generator resumes without "last_id = wid".
AfterRoot_last_id_kept(e) ==
  LET f == e.fetched + 1
      e1 == [e EXCEPT !.fetched = f, !.pid = 0,
                      !.tgt_parent = 0, !.children = {}, !.related = {},
                      !.cur = 0, !.tgt_cur = 0, !.role = "", !.todo = << >>]
  IN  IF args.max_items > 0 /\ f >= args.max_items
      THEN [e1 EXCEPT !.pc = "summary", !.page = << >>]
      ELSE IF e.page # << >>
      THEN [e1 EXCEPT !.pc = "get_parent", !.pid = Head(e.page), !.page = Tail(e.page)]
      ELSE [e1 EXCEPT !.pc = "query"]

\* The generator resumes after the body of the for loop, lines 137-140, and
\* yields the next id of the page, queries the next page or returns.
AfterRoot(e) ==
  LET f == e.fetched + 1
      e1 == [e EXCEPT !.last_id = e.pid, !.fetched = f, !.pid = 0,
                      !.tgt_parent = 0, !.children = {}, !.related = {},
                      !.cur = 0, !.tgt_cur = 0, !.role = "", !.todo = << >>]
  IN  IF args.max_items > 0 /\ f >= args.max_items
      THEN [e1 EXCEPT !.pc = "summary", !.page = << >>]
      ELSE IF e.page # << >>
      THEN [e1 EXCEPT !.pc = "get_parent", !.pid = Head(e.page), !.page = Tail(e.page)]
      ELSE [e1 EXCEPT !.pc = "query"]

\* The for loop over related, line 339.
NextRelated(e) ==
  LET e1 == [e EXCEPT !.cur = 0, !.tgt_cur = 0, !.role = "", !.todo = << >>]
  IN  IF e1.related # {} THEN [e1 EXCEPT !.pc = "get_rel"] ELSE AfterRoot(e1)

\* Mutant: main goes on to the related items while children are left.
NextChild_related_first(e) == NextRelated(e)

\* The for loop over children, line 304.
NextChild(e) ==
  LET e1 == [e EXCEPT !.cur = 0, !.tgt_cur = 0, !.role = "", !.todo = << >>]
  IN  IF e1.children # {} THEN [e1 EXCEPT !.pc = "get_child"] ELSE NextRelated(e1)

\* After the parent is resolved, line 294.
AfterParent(e) ==
  IF comments_guard(e, e.tgt_parent)
  THEN [e EXCEPT !.pc = "get_comments", !.role = "parent"]
  ELSE [e EXCEPT !.pc = "get_rels"]

\* After a child is resolved, line 332.
AfterChild(e) ==
  IF comments_guard(e, e.tgt_cur)
  THEN [e EXCEPT !.pc = "get_comments", !.role = "child"]
  ELSE NextChild(e)

\* After a related item is resolved, line 366.
AfterRelated(e) ==
  IF link_guard(e) THEN [e EXCEPT !.pc = "add_related_link"] ELSE NextRelated(e)

\* After the comments of an item are pushed.
AfterComments(e) ==
  IF e.role = "parent" THEN [e EXCEPT !.pc = "get_rels", !.role = "", !.todo = << >>]
  ELSE NextChild(e)

\* Mutant: an exception of a remote call is caught in the loop and the root
\* is skipped.
main_exception_skipped(e) == AfterRoot(e)

\* An exception leaves main: the locals are gone and the __main__ block
\* prints the error and exits with 1, lines 377-381.
main_exception(e) == [Idle EXCEPT !.pc = "error"]

\* ---------------------------------------------------------- actions

\* The script is started: parse_args and the first lines of the generator.
StartRun(i) ==
  /\ eng[i].pc \in {"idle", "done", "error"}
  /\ runs < MaxRuns
  /\ \E d \in BOOLEAN :
       /\ eng' = [eng EXCEPT ![i] =
                    [Idle EXCEPT !.pc = "query", !.dry = d,
                                 !.last_id = iterate_start(args.start_id),
                                 !.after_complete = completed,
                                 !.cmp = IF d THEN NoSummary ELSE drysum]]
       /\ drysum' = IF d THEN drysum ELSE NoSummary
  /\ runs' = runs + 1
  /\ UNCHANGED <<call, src, args, target, writes, completed, aborted>>

\* iterate_parent_ids queries a page, lines 123-136.
Query(i) ==
  LET e == eng[i]
      page == wiql_parents(src, e.last_id)
  IN  /\ e.pc = "query"
      /\ eng' = [eng EXCEPT ![i] =
                   IF page = << >> THEN [e EXCEPT !.pc = "summary"]
                   ELSE [e EXCEPT !.pc = "get_parent", !.pid = Head(page),
                                  !.page = Tail(page)]]
      /\ UNCHANGED <<call, src, args, target, runs, writes, completed, aborted, drysum>>

\* batch_get of the root, lines 264-267.
GetParent(i) ==
  LET e == eng[i]
      parent_data == batch_get(src, e.pid)
  IN  /\ e.pc = "get_parent"
      /\ eng' = [eng EXCEPT ![i] =
                   IF parent_data = << >> THEN AfterRoot(e)
                   ELSE [e EXCEPT !.pc = "find_parent"]]
      /\ UNCHANGED <<call, src, args, target, runs, writes, completed, aborted, drysum>>

\* find_target_by_reflected of the root, and the dry-run branch, lines 269-292.
FindParent(i) ==
  LET e == eng[i]
  IN  /\ e.pc = "find_parent"
      /\ \E t \in find_target_by_reflected(target, e.pid) :
           eng' = [eng EXCEPT ![i] =
             IF t # 0
             THEN AfterParent([e EXCEPT !.tgt_parent = t,
                                        !.dec = Decide(e, "parent", e.pid, "skip")])
             ELSE IF parent_dry_run(e)
             THEN AfterParent([e EXCEPT !.tgt_parent = -1,
                                        !.created_parent = @ + 1,
                                        !.dec = Decide(e, "parent", e.pid, "create")])
             ELSE [e EXCEPT !.pc = "create_parent"]]
      /\ UNCHANGED <<call, src, args, target, runs, writes, completed, aborted, drysum>>

\* create_work_item of the root, lines 287-289.
CreateParent(i) ==
  LET e == eng[i]
      f == batch_get(src, e.pid)[1].fields
      new == create_work_item(target, TARGET_PARENT_TYPE,
                              create_fields(f, e.pid, args.force_root), 0)
  IN  /\ e.pc = "create_parent"
      /\ target' = new
      /\ writes' = writes \cup {Write(i, "create", e, e.pid, "parent", Len(new), 0)}
      /\ eng' = [eng EXCEPT ![i] =
                   AfterParent([e EXCEPT !.tgt_parent = Len(new),
                                         !.created_parent = @ + 1, !.wrote = TRUE,
                                         !.dec = Decide(e, "parent", e.pid, "create")])]
      /\ UNCHANGED <<call, src, args, runs, completed, aborted, drysum>>

\* get_comments of the root or of a child, lines 295 and 333: a comments
\* request answers, or both fail and the revisions request answers or raises.
GetComments(i) ==
  LET e == eng[i]
      wid == IF e.role = "parent" THEN e.pid ELSE e.cur
  IN  /\ e.pc = "get_comments"
      /\ \E outcome \in {"discussion", "revisions", "raise"} :
           IF outcome = "raise"
           THEN /\ eng' = [eng EXCEPT ![i] = [main_exception(e) EXCEPT !.failed = TRUE]]
                /\ aborted' = (aborted \/ (~e.dry /\ e.wrote))
           ELSE LET todo == TextsOf(get_comments(wid, outcome = "discussion"))
                    e1 == [e EXCEPT !.todo = todo]
                IN  /\ eng' = [eng EXCEPT ![i] =
                                 IF todo = << >> THEN AfterComments(e1)
                                 ELSE [e1 EXCEPT !.pc = "push_history"]]
                    /\ UNCHANGED aborted
      /\ UNCHANGED <<call, src, args, target, runs, writes, completed, drysum>>

\* push_history of the next text, lines 299 and 336.
PushHistory(i) ==
  LET e == eng[i]
      tgt_wid == IF e.role = "parent" THEN e.tgt_parent ELSE e.tgt_cur
      sid == IF e.role = "parent" THEN e.pid ELSE e.cur
      e1 == [e EXCEPT !.todo = Tail(e.todo), !.wrote = TRUE]
  IN  /\ e.pc = "push_history"
      /\ target' = push_history(target, tgt_wid, Head(e.todo))
      /\ writes' = writes \cup {Write(i, "history", e, sid, e.role, tgt_wid, 0)}
      /\ eng' = [eng EXCEPT ![i] =
                   IF e1.todo = << >> THEN AfterComments(e1) ELSE e1]
      /\ UNCHANGED <<call, src, args, runs, completed, aborted, drysum>>

\* get_children_related of the root, line 301.
GetRels(i) ==
  LET e == eng[i]
      cr == get_children_related(relations(src, e.pid))
  IN  /\ e.pc = "get_rels"
      /\ eng' = [eng EXCEPT ![i] =
                   NextChild([e EXCEPT !.children = cr.children,
                                       !.related = cr.related])]
      /\ UNCHANGED <<call, src, args, target, runs, writes, completed, aborted, drysum>>

\* batch_get and the type filter of the next child, lines 304-312.  The
\* list built from the set children has no order the script fixes.
GetChild(i) ==
  LET e == eng[i]
  IN  /\ e.pc = "get_child"
      /\ \E cid \in e.children :
           LET cdata == batch_get(src, cid)
               e1 == [e EXCEPT !.children = @ \ {cid}]
           IN  eng' = [eng EXCEPT ![i] =
                 IF cdata = << >> THEN NextChild(e1)
                 ELSE IF map_type(cdata[1].fields) = "" THEN NextChild(e1)
                 ELSE [e1 EXCEPT !.pc = "find_child", !.cur = cid, !.role = "child"]]
      /\ UNCHANGED <<call, src, args, target, runs, writes, completed, aborted, drysum>>

\* find_target_by_reflected of the child, and the dry-run branch, lines 314-331.
FindChild(i) ==
  LET e == eng[i]
  IN  /\ e.pc = "find_child"
      /\ \E t \in find_target_by_reflected(target, e.cur) :
           eng' = [eng EXCEPT ![i] =
             IF t # 0
             THEN AfterChild([e EXCEPT !.tgt_cur = t,
                                       !.dec = Decide(e, "child", e.cur, "skip")])
             ELSE IF child_dry_run(e)
             THEN AfterChild([e EXCEPT !.tgt_cur = -1, !.created_other = @ + 1,
                                       !.dec = Decide(e, "child", e.cur, "create")])
             ELSE [e EXCEPT !.pc = "create_child"]]
      /\ UNCHANGED <<call, src, args, target, runs, writes, completed, aborted, drysum>>

\* create_work_item of the child under the target parent, lines 329-331.
CreateChild(i) ==
  LET e == eng[i]
      cf == batch_get(src, e.cur)[1].fields
      new == create_work_item(target, map_type(cf),
                              create_fields(cf, e.cur, args.force_root),
                              child_parent_id(e))
  IN  /\ e.pc = "create_child"
      /\ target' = new
      /\ writes' = writes \cup
           {Write(i, "create", e, e.cur, "child", Len(new), child_parent_id(e))}
      /\ eng' = [eng EXCEPT ![i] =
                   AfterChild([e EXCEPT !.tgt_cur = Len(new),
                                        !.created_other = @ + 1, !.wrote = TRUE,
                                        !.dec = Decide(e, "child", e.cur, "create")])]
      /\ UNCHANGED <<call, src, args, runs, completed, aborted, drysum>>

\* batch_get and the type filter of the next related item, lines 339-347.
GetRel(i) ==
  LET e == eng[i]
  IN  /\ e.pc = "get_rel"
      /\ \E rid \in e.related :
           LET rdata == batch_get(src, rid)
               e1 == [e EXCEPT !.related = @ \ {rid}]
           IN  eng' = [eng EXCEPT ![i] =
                 IF rdata = << >> THEN NextRelated(e1)
                 ELSE IF map_type(rdata[1].fields) = "" THEN NextRelated(e1)
                 ELSE [e1 EXCEPT !.pc = "find_rel", !.cur = rid, !.role = "related"]]
      /\ UNCHANGED <<call, src, args, target, runs, writes, completed, aborted, drysum>>

\* find_target_by_reflected of the related item, and the dry-run branch,
\* lines 349-364.
FindRel(i) ==
  LET e == eng[i]
  IN  /\ e.pc = "find_rel"
      /\ \E t \in find_target_by_reflected(target, e.cur) :
           eng' = [eng EXCEPT ![i] =
             IF t # 0
             THEN AfterRelated([e EXCEPT !.tgt_cur = t,
                                         !.dec = Decide(e, "related", e.cur, "skip")])
             ELSE IF related_dry_run(e)
             THEN AfterRelated([e EXCEPT !.tgt_cur = -1, !.created_other = @ + 1,
                                         !.dec = Decide(e, "related", e.cur, "create")])
             ELSE [e EXCEPT !.pc = "create_rel"]]
      /\ UNCHANGED <<call, src, args, target, runs, writes, completed, aborted, drysum>>

\* create_work_item of the related item, without a parent, lines 362-364.
CreateRel(i) ==
  LET e == eng[i]
      rf == batch_get(src, e.cur)[1].fields
      new == create_work_item(target, map_type(rf),
                              create_fields(rf, e.cur, args.force_root), 0)
  IN  /\ e.pc = "create_rel"
      /\ target' = new
      /\ writes' = writes \cup {Write(i, "create", e, e.cur, "related", Len(new), 0)}
      /\ eng' = [eng EXCEPT ![i] =
                   AfterRelated([e EXCEPT !.tgt_cur = Len(new),
                                          !.created_other = @ + 1, !.wrote = TRUE,
                                          !.dec = Decide(e, "related", e.cur, "create")])]
      /\ UNCHANGED <<call, src, args, runs, completed, aborted, drysum>>

\* add_related_link from the target parent to the related item, lines 367-368.
AddRelatedLink(i) ==
  LET e == eng[i]
  IN  /\ e.pc = "add_related_link"
      /\ target' = add_related_link(target, e.tgt_parent, e.tgt_cur)
      /\ writes' = writes \cup
           {Write(i, "related", e, e.cur, "related", e.tgt_parent, e.tgt_cur)}
      /\ eng' = [eng EXCEPT ![i] =
                   NextRelated([e EXCEPT !.related_links = @ + 1, !.wrote = TRUE])]
      /\ UNCHANGED <<call, src, args, runs, completed, aborted, drysum>>

\* The summary is printed and main returns, lines 370-373.
Summary(i) ==
  LET e == eng[i]
  IN  /\ e.pc = "summary"
      /\ eng' = [eng EXCEPT ![i] = [e EXCEPT !.pc = "done"]]
      /\ completed' = (completed \/ ~e.dry)
      /\ drysum' = IF e.dry
                   THEN [valid |-> TRUE, created_parent |-> e.created_parent,
                         created_other |-> e.created_other,
                         related_links |-> e.related_links, dec |-> e.dec]
                   ELSE drysum
      /\ UNCHANGED <<call, src, args, target, runs, writes, aborted>>

\* The places of main where a remote call is about to be made.
RemoteCalls ==
  {"query", "get_parent", "find_parent", "create_parent", "push_history",
   "get_rels", "get_child", "find_child", "create_child", "get_rel", "find_rel",
   "create_rel", "add_related_link"}

\* A remote call raises: nothing of main catches it, and the __main__ block
\* prints the error and exits with 1, lines 377-381.
Fail(i) ==
  LET e == eng[i]
  IN  /\ e.pc \in RemoteCalls
      /\ eng' = [eng EXCEPT ![i] = [main_exception(e) EXCEPT !.failed = TRUE]]
      /\ aborted' = (aborted \/ (~e.dry /\ e.wrote))
      /\ UNCHANGED <<call, src, args, target, runs, writes, completed, drysum>>

Step(i) ==
  \/ StartRun(i)
  \/ Query(i)
  \/ GetParent(i)
  \/ FindParent(i)
  \/ CreateParent(i)
  \/ GetComments(i)
  \/ PushHistory(i)
  \/ GetRels(i)
  \/ GetChild(i)
  \/ FindChild(i)
  \/ CreateChild(i)
  \/ GetRel(i)
  \/ FindRel(i)
  \/ CreateRel(i)
  \/ AddRelatedLink(i)
  \/ Summary(i)
  \/ Fail(i)

\* One writer at a time: the runs of one instance follow one another.
Next == \E i \in {1} : Step(i)
Spec == Init /\ [][Next]_vars

\* Two instances run against the same target project at once.
\* Two instances, the target empty at first, on the source graphs of one
\* root with at most one link, without --max, --start-id and --force-root.
InitConc ==
  /\ Init
  /\ src.type[2] = "User Story" /\ src.type[3] = "issue"
  /\ Len(src.rels[1]) <= Len(NoiseRels(1)) + 1
  /\ src.rels[2] = NoiseRels(2)
  /\ args.max_items = 0 /\ args.start_id = 0 /\ ~args.force_root

NextConc == \E i \in Instances : Step(i)
SpecConc == InitConc /\ [][NextConc]_vars

\* ------------------------------------- iterate_parent_ids on its own

\* The sources given to the generator: any of the ids is of a parent type,
\* and the server's result limit is any up to PageSize + 1.
EnumGraphs ==
  {[type |-> ty, limit |-> l, rels |-> [id \in SrcIds |-> NoiseRels(id)]] :
     ty \in [SrcIds -> {"Work Bundle", "Workbundle", "issue"}], l \in 1..(PageSize + 1)}

\* --max and --start-id of the generator's call.
EnumArgs ==
  [max_items : 0..Cardinality(SrcIds), start_id : 0..Cardinality(SrcIds),
   force_root : {FALSE}, with_comments : {FALSE}]

\* The generator is called and runs up to its first query.
InitEnum ==
  /\ src \in EnumGraphs
  /\ args \in EnumArgs
  /\ target = << >>
  /\ eng = [i \in Instances |->
              IF i = 1 THEN [Idle EXCEPT !.pc = "query",
                                         !.last_id = iterate_start(args.start_id)]
              ELSE Idle]
  /\ runs = 1 /\ writes = {} /\ completed = FALSE /\ aborted = FALSE
  /\ drysum = NoSummary
  /\ call = NoCall

\* The caller of the generator is done with the yielded id and asks for the
\* next: the generator resumes behind its yield, lines 137-140.
Resume(i) ==
  /\ eng[i].pc = "get_parent"
  /\ eng' = [eng EXCEPT ![i] = AfterRoot(eng[i])]
  /\ UNCHANGED <<call, src, args, target, runs, writes, completed, aborted, drysum>>

\* The generator alone; its caller always comes back for the next id.
NextEnum == Query(1) \/ Resume(1)
SpecEnum == InitEnum /\ [][NextEnum]_vars
SpecEnumFair == SpecEnum /\ WF_vars(NextEnum)

\* --------------------------------------------- remap_root on its own

\* The strings given to remap_root: a path of up to MaxSegs segments, among
\* them the empty string and None, and root labels of up to MaxRootSegs
\* segments (--target-area-root may name an area below the project).
SeqsUpTo(S, n) == UNION {[1..k -> S] : k \in 1..n}
RemapPaths == {NonePath} \cup SeqsUpTo({"", "Src", "SRC", "TeamA"}, MaxSegs)
RemapRoots == SeqsUpTo({"Src", "Tgt"}, MaxRootSegs)

\* No run of the engine; the arguments of one call are chosen.
InitRemap ==
  /\ src = MkGraph([id \in SrcIds |-> IF id = 1 THEN "Work Bundle" ELSE "issue"],
                   [lp \in LinkPairs |-> "none"])
  /\ args = [max_items |-> 0, start_id |-> 0, force_root |-> FALSE,
             with_comments |-> FALSE]
  /\ target = << >>
  /\ eng = [i \in Instances |-> Idle]
  /\ runs = 0 /\ writes = {} /\ completed = FALSE /\ aborted = FALSE
  /\ drysum = NoSummary
  /\ call \in [pc : {"remap_root"}, src_path : RemapPaths, src_root : RemapRoots,
               tgt_root : RemapRoots]

\* The call returns.
RemapReturn ==
  /\ call.pc = "remap_root"
  /\ call' = [pc |-> "returned", src_path |-> call.src_path,
              src_root |-> call.src_root, tgt_root |-> call.tgt_root,
              result |-> remap_root(call.src_path, call.src_root, call.tgt_root)]
  /\ UNCHANGED <<src, args, target, eng, runs, writes, completed, aborted, drysum>>

NextRemap == RemapReturn
SpecRemap == InitRemap /\ [][NextRemap]_vars

\* -------------------------------------------- get_comments on its own

\* The two comments urls get_comments tries in turn, lines 169-172, and the
\* revisions url of the fallback, line 180.
candidates == <<"org/comments", "project/comments">>
rev_url == "project/revisions"

\* The discussion threads and the revision histories of the work item asked
\* for: up to MaxEntries entries each; a text of "" is an entry without
\* text, a history of "" a revision that carries no System.History.
SeqsFromZero(S, n) == {<< >>} \cup SeqsUpTo(S, n)
Threads == SeqsFromZero([text : {"", "a", "b"}], MaxEntries)
Histories == SeqsFromZero({"", "h", "g"}, MaxEntries)

\* The fallback's loop over the revisions, lines 182-188.
revisions_entries(value) ==
  LET kept == SelectSeq(value, LAMBDA hist : hist # "")
  IN  [k \in 1..Len(kept) |-> [text |-> kept[k]]]

\* Mutant: an empty comment list is taken for a failure and the next url
\* is tried.
comments_answer_unless_empty(c, comments) ==
  IF comments # << >> THEN [c EXCEPT !.pc = "returned", !.result = comments]
  ELSE IF c.k < Len(candidates) THEN [c EXCEPT !.k = c.k + 1]
  ELSE [c EXCEPT !.pc = "revisions"]

\* A comments request answers: its list is returned, line 176.
comments_answer(c, comments) == [c EXCEPT !.pc = "returned", !.result = comments]

\* A comments request raises: the except clause passes and the loop goes
\* on to the next url or ends, lines 173-178.
comments_except(c) ==
  IF c.k < Len(candidates) THEN [c EXCEPT !.k = c.k + 1]
  ELSE [c EXCEPT !.pc = "revisions"]

\* No run of the engine; the work item of one call of get_comments is chosen.
InitComments ==
  /\ src = MkGraph([id \in SrcIds |-> IF id = 1 THEN "Work Bundle" ELSE "issue"],
                   [lp \in LinkPairs |-> "none"])
  /\ args = [max_items |-> 0, start_id |-> 0, force_root |-> FALSE,
             with_comments |-> TRUE]
  /\ target = << >>
  /\ eng = [i \in Instances |-> Idle]
  /\ runs = 0 /\ writes = {} /\ completed = FALSE /\ aborted = FALSE
  /\ drysum = NoSummary
  /\ call \in [pc : {"comments"}, k : {1}, thread : Threads, value : Histories,
               requests : {<< >>}, result : {<< >>}]

\* The GET of the next comments url, lines 174-178.
CommentsRequest ==
  /\ call.pc = "comments"
  /\ \E ok \in BOOLEAN :
       LET c == [call EXCEPT !.requests =
                   Append(@, [url |-> candidates[call.k], ok |-> ok])]
       IN  call' = IF ok THEN comments_answer(c, call.thread) ELSE comments_except(c)
  /\ UNCHANGED <<src, args, target, eng, runs, writes, completed, aborted, drysum>>

\* The GET of the revisions, lines 180-188: it answers and the entries are
\* rebuilt, or it raises and nothing of get_comments catches it.
RevisionsRequest ==
  /\ call.pc = "revisions"
  /\ \E ok \in BOOLEAN :
       LET c == [call EXCEPT !.requests = Append(@, [url |-> rev_url, ok |-> ok])]
       IN  call' = IF ok
                   THEN [c EXCEPT !.pc = "returned",
                                  !.result = revisions_entries(call.value)]
                   ELSE [c EXCEPT !.pc = "raised"]
  /\ UNCHANGED <<src, args, target, eng, runs, writes, completed, aborted, drysum>>

NextComments == CommentsRequest \/ RevisionsRequest
SpecComments == InitComments /\ [][NextComments]_vars

\* ------------------------------------- copy_last_workbundles.py

SRC_WB_TYPES == {"Work Bundle", "Workbundle", "WorkBundle"}
TARGET_WB_TYPE == "Work Bundle"

\* The source projects of the script: every item a work bundle, under one
\* of two spellings, or an issue.
WbGraphs ==
  {MkGraph(ty, [lp \in LinkPairs |-> "none"]) :
     ty \in [SrcIds -> {"Work Bundle", "WorkBundle", "issue"}]}

\* The target the script starts on: empty, or with the counterpart of
\* source item 2 from an earlier copy.
WbTargets ==
  {<< >>,
   <<[type |-> TARGET_WB_TYPE, fields |-> (REFLECTED :> "2"), parent |-> 0,
      related |-> << >>, history |-> << >>]>>}

RECURSIVE Descending(_)
\* The ids of a set from the greatest down.
Descending(S) ==
  IF S = {} THEN << >>
  ELSE LET m == CHOOSE x \in S : \A y \in S : y <= x
       IN  <<m>> \o Descending(S \ {m})

\* wiql_created_wb: the ids of the work bundles, the one created last first
\* (ids are given out in the order of creation).
wiql_created_wb(g) == Descending({id \in SrcIds : g.type[id] \in SRC_WB_TYPES})

\* Mutant: the list of ids is not cut to --top.
top_slice_all(ids, top) == ids

\* ids[:a.top] of line 87: the first top ids, or all of them when there are
\* fewer; a negative top counts from the end of the list.
top_slice(ids, top) ==
  LET stop == IF top < 0 THEN Len(ids) + top ELSE top
  IN  SubSeq(ids, 1, IF stop < 0 THEN 0 ELSE IF stop < Len(ids) THEN stop ELSE Len(ids))

\* Mutant: the lookup never finds a counterpart.
wb_find_never(tgt, source_id) == {0}

\* find_target_by_reflected of the script, lines 43-51: the values the call
\* may return, 0 for None.
wb_find_target_by_reflected(tgt, source_id) ==
  LET ids == {t \in 1..Len(tgt) :
                /\ REFLECTED \in DOMAIN tgt[t].fields
                /\ tgt[t].fields[REFLECTED] = ToString(source_id)}
  IN  IF ids = {} THEN {0} ELSE ids

\* The fields dict of lines 100-107; area and itr are the target project.
wb_fields(f, sid) ==
  ("System.Title" :> Get(f, "System.Title", "Migrated " \o ToString(sid)))
  @@ ("System.Description" :> GetOrEmpty(f, "System.Description"))
  @@ ("System.Tags" :> GetOrEmpty(f, "System.Tags"))
  @@ (REFLECTED :> ToString(sid))
  @@ ("System.AreaPath" :> <<TGT_PROJECT>>)
  @@ ("System.IterationPath" :> <<TGT_PROJECT>>)

\* create_work_item of the script, lines 54-58.
wb_create_work_item(tgt, fields) ==
  Append(tgt, [type |-> TARGET_WB_TYPE, fields |-> fields, parent |-> 0,
               related |-> << >>, history |-> << >>])

\* The summary line of a run, and none.
NoWbSummary == [valid |-> FALSE, selected |-> 0, created |-> 0, skipped |-> 0]

\* The locals of main of the script between two remote calls; first is the
\* summary of the first complete run that was no dry run, after tells that
\* the run started after it, len0 is the number of target items at the
\* start of the run.
WbIdle(top) ==
  [pc |-> "idle", top |-> top, dry |-> FALSE, ids |-> << >>, items |-> << >>,
   selected |-> 0, created |-> 0, skipped |-> 0, len0 |-> 0, after |-> FALSE,
   first |-> NoWbSummary]

\* No run of the engine; the source, the target and --top, a count of 0 to
\* MaxTop, are chosen.
InitWb ==
  /\ src \in WbGraphs
  /\ args = [max_items |-> 0, start_id |-> 0, force_root |-> FALSE,
             with_comments |-> FALSE]
  /\ target \in WbTargets
  /\ eng = [i \in Instances |-> Idle]
  /\ runs = 0 /\ writes = {} /\ completed = FALSE /\ aborted = FALSE
  /\ drysum = NoSummary
  /\ call \in {WbIdle(top) : top \in 0..MaxTop}

\* The for loop of line 94 goes on to the next item or ends.
WbNext(c) ==
  LET c1 == [c EXCEPT !.items = Tail(c.items)]
  IN  IF c1.items = << >> THEN [c1 EXCEPT !.pc = "summary"] ELSE [c1 EXCEPT !.pc = "find"]

\* The script is started with the same --top, as a dry run or not.
WbStart ==
  /\ call.pc \in {"idle", "done", "empty", "error"}
  /\ runs < MaxRuns
  /\ \E d \in BOOLEAN :
       call' = [WbIdle(call.top) EXCEPT !.pc = "wiql", !.dry = d,
                                        !.len0 = Len(target),
                                        !.after = call.first.valid,
                                        !.first = call.first]
  /\ runs' = runs + 1
  /\ UNCHANGED <<src, args, target, eng, writes, completed, aborted, drysum>>

\* The query and the slice, lines 87-90.
WbQuery ==
  /\ call.pc = "wiql"
  /\ LET ids == top_slice(wiql_created_wb(src), call.top)
     IN  call' = IF ids = << >> THEN [call EXCEPT !.pc = "empty"]
                 ELSE [call EXCEPT !.pc = "batch_get", !.ids = ids]
  /\ UNCHANGED <<src, args, target, eng, runs, writes, completed, aborted, drysum>>

\* batch_get of the ids, lines 92-93: one item per id.
WbBatchGet ==
  /\ call.pc = "batch_get"
  /\ call' = [call EXCEPT !.pc = "find", !.items = call.ids,
                           !.selected = Len(call.ids)]
  /\ UNCHANGED <<src, args, target, eng, runs, writes, completed, aborted, drysum>>

\* The lookup of the item and the dry-run branch, lines 95-112.
WbFind ==
  /\ call.pc = "find"
  /\ \E t \in wb_find_target_by_reflected(target, Head(call.items)) :
       call' = IF t # 0 THEN WbNext([call EXCEPT !.skipped = @ + 1])
               ELSE IF call.dry THEN WbNext([call EXCEPT !.created = @ + 1])
               ELSE [call EXCEPT !.pc = "create"]
  /\ UNCHANGED <<src, args, target, eng, runs, writes, completed, aborted, drysum>>

\* create_work_item of the item, lines 110-112.
WbCreate ==
  LET sid == Head(call.items)
      new == wb_create_work_item(target, wb_fields(SrcFields(sid), sid))
  IN  /\ call.pc = "create"
      /\ target' = new
      /\ writes' = writes \cup
           {[inst |-> 1, op |-> "create", conn |-> conn_tgt, dry |-> FALSE,
             root |-> sid, sid |-> sid, role |-> "parent", tgt |-> Len(new),
             ref |-> 0]}
      /\ call' = WbNext([call EXCEPT !.created = @ + 1])
      /\ UNCHANGED <<src, args, eng, runs, completed, aborted, drysum>>

\* The summary is printed, lines 114-115.
WbSummary ==
  /\ call.pc = "summary"
  /\ call' = [call EXCEPT !.pc = "done",
                 !.first = IF call.dry \/ call.first.valid THEN @
                           ELSE [valid |-> TRUE, selected |-> call.selected,
                                 created |-> call.created, skipped |-> call.skipped]]
  /\ completed' = (completed \/ ~call.dry)
  /\ UNCHANGED <<src, args, target, eng, runs, writes, aborted, drysum>>

\* A remote call raises and the __main__ block exits with 1, lines 118-123.
WbFail ==
  /\ call.pc \in {"wiql", "batch_get", "find", "create"}
  /\ call' = [call EXCEPT !.pc = "error"]
  /\ UNCHANGED <<src, args, target, eng, runs, writes, completed, aborted, drysum>>

NextWb ==
  \/ WbStart \/ WbQuery \/ WbBatchGet \/ WbFind \/ WbCreate \/ WbSummary \/ WbFail
SpecWb == InitWb /\ [][NextWb]_vars

\* ------------------------------------------- what the claims speak of

\* The target items that hold the correlation value of a source id.
Holders(sid) ==
  {t \in 1..Len(target) :
     /\ REFLECTED \in DOMAIN target[t].fields
     /\ target[t].fields[REFLECTED] = ToString(sid)}

\* The source ids a root's relations name with a Hierarchy-Forward link and
\* with a Related link, read off the relation list.
UrlId(url) ==
  CASE url = "1" -> 1 [] url = "2" -> 2 [] url = "3" -> 3 [] url = "9" -> 9 [] OTHER -> 0
HierarchyChildren(r) ==
  {UrlId(src.rels[r][k].url) :
     k \in {j \in 1..Len(src.rels[r]) : src.rels[r][j].rel = HIER_FWD}} \ {0}
RelatedLinked(r) ==
  {UrlId(src.rels[r][k].url) :
     k \in {j \in 1..Len(src.rels[r]) : src.rels[r][j].rel = RELATED}} \ {0}

\* A source item whose type is a key of CHILD_TYPE_MAP, compared without case.
MappedType(sid) ==
  sid \in SrcIds /\ \E k \in DOMAIN CHILD_TYPE_MAP : Lower(k) = Lower(src.type[sid])

\* The roots a complete run over the command line's range processes: the
\* ids of the parent types from --start-id on, the --max least of them.
RootsInRange ==
  LET from == {r \in SrcIds : src.type[r] \in PARENT_TYPES /\ r >= args.start_id}
  IN  IF args.max_items = 0 THEN from
      ELSE {r \in from : Cardinality({q \in from : q < r}) < args.max_items}

\* The source ids a complete run has a counterpart for: the roots in range
\* and the items of a mapped type linked to one of them.
Expected ==
  RootsInRange \cup
  {sid \in SrcIds : MappedType(sid) /\ \E r \in RootsInRange :
     sid \in HierarchyChildren(r) \cup RelatedLinked(r)}

Creates == {w \in writes : w.op = "create"}

\* ------------------------------------------------------------ claims

\* C1: a run started after a complete non-dry run over the same source and
\* range issues no create: it never stands before a create call and both of
\* its created counters stay 0.
C1_SecondRunCreatesNothing ==
  \A i \in Instances :
    eng[i].after_complete =>
      /\ eng[i].created_parent = 0
      /\ eng[i].created_other = 0
      /\ eng[i].pc \notin {"create_parent", "create_child", "create_rel"}

\* A second non-dry run has ended, having found a root and a linked item.
C1_Witness ==
  \E i \in Instances :
    /\ eng[i].after_complete /\ eng[i].pc = "done" /\ ~eng[i].dry
    /\ \E d \in eng[i].dec : d[1] = "parent" /\ d[4] = "skip"
    /\ \E d \in eng[i].dec : d[1] # "parent" /\ d[4] = "skip"

\* C2: with one instance running at a time, no two target items hold the
\* same correlation value, in every state of every run.
C2_CorrelationUnique ==
  \A t1, t2 \in 1..Len(target) :
    ( /\ REFLECTED \in DOMAIN target[t1].fields
      /\ REFLECTED \in DOMAIN target[t2].fields
      /\ target[t1].fields[REFLECTED] = target[t2].fields[REFLECTED] ) => t1 = t2

\* An item created as the child of one root has been found again as a
\* related item of another root, after a run that ended in the error exit.
C2_Witness ==
  /\ aborted
  /\ \E i \in Instances, w \in Creates :
       /\ w.role = "child"
       /\ \E d \in eng[i].dec :
            d[1] = "related" /\ d[3] = w.sid /\ d[2] # w.root /\ d[4] = "skip"

\* C3: with two instances at once a correlation value can come to be held
\* by two target items; it is held by at most one item per instance, since
\* an instance creates only after its own lookup found nothing.
C3_DuplicatesOnlyAcrossInstances ==
  \A w1, w2 \in Creates :
    (w1.sid = w2.sid /\ w1.inst = w2.inst) => w1.tgt = w2.tgt

\* Both lookups for a source id found nothing and both instances created:
\* two target items hold the same correlation value.
C3_Witness ==
  \E sid \in SrcIds : \E t1, t2 \in Holders(sid) :
    /\ t1 # t2
    /\ \E w1, w2 \in Creates :
         w1.tgt = t1 /\ w2.tgt = t2 /\ w1.sid = sid /\ w2.sid = sid /\ w1.inst # w2.inst

\* C4: when a non-dry run ends with its summary, also after a run that ended
\* in the error exit, the target holds exactly one counterpart of every root
\* in range and of every linked item of a mapped type, and the engine has
\* created an item for no other source id.
C4_ResumeCompletes ==
  \A i \in Instances :
    (eng[i].pc = "done" /\ ~eng[i].dry) =>
      /\ \A sid \in Expected : Cardinality(Holders(sid)) = 1
      /\ \A w \in Creates : w.sid \in Expected /\ w.tgt \in Holders(w.sid)

\* A non-dry run has ended with its summary after an earlier one ended in
\* the error exit behind a write; it found a counterpart and created one.
C4_Witness ==
  \E i \in Instances :
    /\ eng[i].pc = "done" /\ ~eng[i].dry /\ aborted
    /\ \E d \in eng[i].dec : d[4] = "skip"
    /\ \E d \in eng[i].dec : d[4] = "create" /\ d[1] # "parent"

\* C5: on the relations of the root in process get_children_related
\* returns disjoint sets, with every id that has a Hierarchy-Forward link
\* among the children only (and every other Related id among the related);
\* and no Related edge is written for a hierarchical child of that root.
C5_HierarchyPrecedence ==
  /\ \A i \in Instances :
       eng[i].pc = "get_rels" =>
         LET r == eng[i].pid
             cr == get_children_related(src.rels[r])
         IN  /\ cr.children \cap cr.related = {}
             /\ HierarchyChildren(r) \subseteq cr.children
             /\ HierarchyChildren(r) \cap cr.related = {}
             /\ RelatedLinked(r) \ HierarchyChildren(r) \subseteq cr.related
  /\ \A w \in writes : w.op = "related" => w.sid \notin HierarchyChildren(w.root)
  /\ \A i \in Instances :
       eng[i].pc \in {"find_rel", "create_rel", "add_related_link"}
         => eng[i].cur \notin HierarchyChildren(eng[i].pid)

\* A non-dry run has ended, having created as a child an item its root also
\* lists as related, and having written a Related edge for another item.
C5_Witness ==
  \E i \in Instances, w \in Creates :
    /\ eng[i].pc = "done" /\ ~eng[i].dry
    /\ w.role = "child" /\ w.sid \in RelatedLinked(w.root)
    /\ \E v \in writes : v.op = "related" /\ v.root = w.root

\* C6: a dry run issues no mutating call: no write is recorded for it and it
\* never stands before a create, a history patch or a related-link patch.
C6_DryRunWritesNothing ==
  /\ \A w \in writes : ~w.dry
  /\ \A i \in Instances :
       eng[i].dry => eng[i].pc \notin {"create_parent", "create_child", "create_rel",
                                       "push_history", "add_related_link"}

\* A dry run with --with-comments and --force-root has ended with its
\* summary, having counted a root, a child and a related item as created.
C6_Witness ==
  \E i \in Instances :
    /\ eng[i].pc = "done" /\ eng[i].dry /\ args.with_comments /\ args.force_root
    /\ \E d \in eng[i].dec : d[1] = "parent" /\ d[4] = "create"
    /\ \E d \in eng[i].dec : d[1] = "child" /\ d[4] = "create"
    /\ \E d \in eng[i].dec : d[1] = "related" /\ d[4] = "create"

\* The entities a run reconciled, whatever the branch: (role, root, id).
Reconciled(dec) == {<<d[1], d[2], d[3]>> : d \in dec}
\* Some linked item was reconciled under two roots.
SharedLinked(dec) == \E d1, d2 \in dec : d1[1] # "parent" /\ d1[3] = d2[3] /\ d1[2] # d2[2]

LinkWrites == {w \in writes : w.op = "related" \/ (w.op = "create" /\ w.ref # 0)}
LinkedTo(r) == (HierarchyChildren(r) \cup RelatedLinked(r)) \cap SrcIds
Roots == {r \in SrcIds : src.type[r] \in PARENT_TYPES}
NeverCreatedNorLinked(sid) ==
  /\ \A w \in Creates : w.sid # sid
  /\ \A w \in LinkWrites : w.tgt \notin Holders(sid) /\ w.ref \notin Holders(sid)

\* C8 as claimed: an item linked to a root whose type is no key of the
\* child type map is never created and never the endpoint of a written link.
C8_UnmappedNeverCreated ==
  \A r \in Roots : \A sid \in LinkedTo(r) :
    ~MappedType(sid) => NeverCreatedNorLinked(sid)

\* C8, amended: no create, history or link write is issued for such an item
\* by the loops over children and related; when it is not itself a root it
\* is never created and no target item holding its correlation value is the
\* endpoint of a written link; when it is a root, it is created as a root.
C8_UnmappedNeverReconciled ==
  \A r \in Roots : \A sid \in LinkedTo(r) :
    ~MappedType(sid) =>
      /\ \A w \in writes : w.sid = sid => w.role = "parent" /\ w.root = sid
      /\ \A i \in Instances :
           eng[i].cur # sid /\ \A d \in eng[i].dec : d[3] = sid => d[1] = "parent"
      /\ sid \notin Roots => NeverCreatedNorLinked(sid)

\* A non-dry run has ended on a root linked to an item of type Bug whose
\* correlation value a target item already held: the run created another
\* item linked to the root.
C8_Witness ==
  \E i \in Instances, w \in Creates :
    /\ eng[i].pc = "done" /\ ~eng[i].dry
    /\ src.type[3] = "Bug" /\ Holders(3) # {}
    /\ 3 \in LinkedTo(w.root) /\ w.role # "parent"
    /\ args.with_comments

\* C9: a run started after a complete non-dry run adds no Related edge: it
\* never stands before add_related_link and its counter stays 0.
C9_SecondRunAddsNoEdge ==
  \A i \in Instances :
    eng[i].after_complete =>
      eng[i].related_links = 0 /\ eng[i].pc # "add_related_link"

C11_FailFast ==
  [][\A i \in Instances :
       /\ eng'[i].failed => eng'[i].pc = "error" /\ eng'[i].pid = 0
       /\ (~eng[i].failed /\ eng'[i].failed) =>
            /\ eng[i].pc \in RemoteCalls \cup {"get_comments"}
            /\ target' = target /\ writes' = writes
       /\ eng[i].pc = "error" =>
            \/ eng'[i] = eng[i]
            \/ /\ eng'[i].pc = "query" /\ runs' = runs + 1
               /\ target' = target /\ writes' = writes]_vars

\* A non-dry run has ended in the error exit after a write, and a root in
\* range has no counterpart: the run never came to it.
C11_Witness ==
  \E i \in Instances :
    /\ eng[i].failed /\ eng[i].pc = "error" /\ aborted
    /\ \E r \in RootsInRange : Holders(r) = {}

\* C12 as claimed: remap_root returns a string whose first segment is the
\* target root.
C12_FirstSegmentIsTargetRoot ==
  call.pc = "returned" =>
    /\ call.result # NonePath
    /\ <<call.result[1]>> = call.tgt_root

\* C12, amended: remap_root returns a string that begins with the target
\* root, segment by segment; its first segment is the target root when the
\* target root is a single segment.
C12_BeginsWithTargetRoot ==
  call.pc = "returned" =>
    /\ call.result # NonePath
    /\ Len(call.result) >= Len(call.tgt_root)
    /\ SubSeq(call.result, 1, Len(call.tgt_root)) = call.tgt_root
    /\ Len(call.tgt_root) = 1 => <<call.result[1]>> = call.tgt_root

\* remap_root has returned for a path whose first segment is the source
\* root in another case, with a target root of two segments.
C12_Witness ==
  /\ call.pc = "returned"
  /\ call.src_path = <<"SRC", "TeamA">> /\ call.src_root = <<"Src">>
  /\ call.tgt_root = <<"Tgt", "Src">>
  /\ call.result = <<"Tgt", "Src", "TeamA">>

\* C13: no step of the engine changes the source, and every mutating call
\* (create, history patch, related-link patch) is made on the target
\* connection.
C13_SourceReadOnly ==
  [][/\ src' = src
     /\ \A w \in writes' : w.conn = conn_tgt /\ w.conn # conn_src]_vars

\* A non-dry run has ended after a create, a history patch and a
\* related-link patch.
C13_Witness ==
  /\ \E i \in Instances : eng[i].pc = "done" /\ ~eng[i].dry /\ eng[i].wrote
  /\ \A op \in {"create", "history", "related"} : \E w \in writes : w.op = op

\* The roots that hold a Hierarchy-Forward link to a source id.
HierarchyParents(sid) == {r \in Roots : sid \in HierarchyChildren(r)}

\* C14: when a non-dry run ends with its summary, every counterpart of a
\* hierarchical child of a mapped type (a child with one parent in the
\* source) has the counterpart of its root as parent in the target.
C14_ChildrenUnderParent ==
  \A i \in Instances :
    (eng[i].pc = "done" /\ ~eng[i].dry) =>
      \A P \in RootsInRange : \A C \in HierarchyChildren(P) \cap SrcIds :
        (MappedType(C) /\ HierarchyParents(C) = {P}) =>
          \A tc \in Holders(C) : target[tc].parent \in Holders(P)

\* C15: no write names an id that is not positive: a related-link patch has
\* both ids above 0, a history patch its target id, and a create is given a
\* parent id above 0 or none (0); the engine never stands before such a
\* call with a sentinel id.
C15_NoWriteAgainstSentinel ==
  /\ \A w \in writes :
       /\ w.tgt > 0
       /\ w.op = "related" => w.ref > 0
       /\ w.op = "create" => w.ref >= 0
       /\ w.op = "history" => w.ref = 0
  /\ \A i \in Instances :
       LET e == eng[i]
       IN  /\ e.pc = "add_related_link" => e.tgt_parent > 0 /\ e.tgt_cur > 0
           /\ e.pc = "push_history" =>
                IF e.role = "parent" THEN e.tgt_parent > 0 ELSE e.tgt_cur > 0
           /\ e.pc = "create_child" => child_parent_id(e) > 0 /\ e.tgt_parent > 0

\* A dry run has ended with its summary after it found the counterpart of a
\* root and none of an item related to it: the link from the real parent id
\* to the sentinel was skipped and the run went on.
C15_Witness ==
  \E i \in Instances : \E r, sid \in SrcIds :
    /\ eng[i].pc = "done" /\ eng[i].dry /\ eng[i].related_links = 0
    /\ <<"parent", r, r, "skip">> \in eng[i].dec
    /\ <<"related", r, sid, "create">> \in eng[i].dec

\* The correlation field of a target item, <<v>> for a value v and << >>
\* for an item without the field.
Correlation(item) ==
  IF REFLECTED \in DOMAIN item.fields THEN <<item.fields[REFLECTED]>> ELSE << >>

\* C16: every item the engine has created holds, from its create on, the
\* string form of the source id it was created for as correlation value,
\* and no step changes, adds or clears the correlation field of an item
\* the target already holds.
C16_CorrelationWrittenOnce ==
  [][/\ Len(target') >= Len(target)
     /\ \A t \in 1..Len(target) : Correlation(target'[t]) = Correlation(target[t])
     /\ \A w \in writes' :
          w.op = "create" => Correlation(target'[w.tgt]) = <<ToString(w.sid)>>]_vars

\* A run started after a complete non-dry run has ended with its summary;
\* items were created, history was patched and a Related edge was added.
C16_Witness ==
  /\ \E i \in Instances : eng[i].pc = "done" /\ ~eng[i].dry /\ eng[i].after_complete
  /\ \A op \in {"create", "history", "related"} : \E w \in writes : w.op = op
  /\ \E w \in writes : w.op = "history" /\ w.role = "child"

\* The phase of the root in process: 1 the root is resolved or created, 2
\* its comments are migrated, 3 its relations are fetched, 4 its children
\* and 5 its related items are reconciled; 0 between roots.
Phase(e) ==
  CASE e.pc \in {"get_parent", "find_parent", "create_parent"} -> 1
    [] e.pc \in {"get_comments", "push_history"} /\ e.role = "parent" -> 2
    [] e.pc = "get_rels" -> 3
    [] e.pc \in {"get_child", "find_child", "create_child"} -> 4
    [] e.pc \in {"get_comments", "push_history"} /\ e.role = "child" -> 4
    [] e.pc \in {"get_rel", "find_rel", "create_rel", "add_related_link"} -> 5
    [] OTHER -> 0

\* The work left on the root in process: children and related ids not yet
\* taken, comment texts not yet pushed.
Pending(e) == Cardinality(e.children) + Cardinality(e.related) + Len(e.todo)

\* C17: while a root is in process the phases follow one another in the
\* order root, root's comments, relations, children, related items; the
\* root's counterpart is resolved (or the dry-run sentinel set) before its
\* comments or any child is taken, no child is left when the related items
\* are taken, and the generator is resumed for the next id only by the step
\* that ends the work on the root.
C17_PerRootOrder ==
  [][\A i \in Instances :
       LET e == eng[i]
           f == eng'[i]
       IN  /\ (e.pid # 0 /\ f.pid = e.pid) => Phase(f) >= Phase(e)
           /\ Phase(f) >= 2 => f.tgt_parent # 0
           /\ Phase(f) = 2 => f.tgt_parent > 0
           /\ Phase(f) = 5 => f.children = {}
           /\ Phase(f) \in {3, 5} => f.todo = << >>
           /\ (e.pid # 0 /\ f.pid # e.pid /\ ~f.failed) =>
                /\ Phase(e) >= 3
                /\ Pending(e) <= 1
                /\ Pending(e) = 1 => e.pc \in {"get_child", "get_rel", "push_history"}
                /\ f.last_id = e.pid /\ f.children = {} /\ f.related = {}
                /\ f.todo = << >>]_vars

\* A non-dry run over two roots has ended with its summary: the first root
\* had comments, a child with comments and a related id, the second root a
\* related item.
C17_Witness ==
  \E i \in Instances :
    /\ eng[i].pc = "done" /\ ~eng[i].dry /\ eng[i].fetched = 2
    /\ <<"child", 1, 3, "create">> \in eng[i].dec
    /\ <<"related", 2, 3, "skip">> \in eng[i].dec
    /\ RelatedLinked(1) # {}
    /\ \E w \in writes : w.op = "history" /\ w.role = "parent" /\ w.root = 1
    /\ \E w \in writes : w.op = "history" /\ w.role = "child" /\ w.root = 1

\* The generator yields: the caller is handed an id it did not hold.
Yields(e, f) == f.pc = "get_parent" /\ (e.pc = "query" \/ f.pid # e.pid)

\* A sequence of ids is strictly increasing.
Increasing(q) == \A j, k \in 1..Len(q) : j < k => q[j] < q[k]

\* C18: every id the generator yields is above every id it yielded before
\* and above the lower bound of the query that returned it, as are the ids
\* of the page still to be yielded; with a positive --max the yielded ids
\* are at most that many.
C18_YieldsIncreasing ==
  [][\A i \in Instances :
       LET e == eng[i]
           f == eng'[i]
       IN  /\ (e.pc = "query" /\ f.pc = "get_parent") =>
                /\ f.pid > e.last_id
                /\ \A k \in 1..Len(f.page) : f.page[k] > e.last_id
           /\ Yields(e, f) =>
                /\ f.pid > f.last_id
                /\ e.pid # 0 => f.pid > e.pid /\ f.last_id = e.pid
                /\ Increasing(<<f.pid>> \o f.page)
                /\ f.pid \in SrcIds /\ src.type[f.pid] \in PARENT_TYPES
                /\ args.max_items > 0 => f.fetched + 1 <= args.max_items
           /\ f.fetched \in {e.fetched, e.fetched + 1}
           /\ f.fetched = e.fetched + 1 <=> (e.pc = "get_parent" /\ f.pc # "get_parent")
                                            \/ (e.pc = "get_parent" /\ f.pid # e.pid)]_vars

\* The generator has returned after it yielded three ids, of a page of two
\* and of the page after it, on reaching --max 3.
C18_Witness ==
  /\ eng[1].pc = "summary" /\ eng[1].fetched = 3 /\ eng[1].last_id = 3
  /\ args.max_items = 3 /\ src.limit = 2 /\ args.start_id = 1

\* C19: the generator returns in the end; it returns in the step in which a
\* query gives an empty page or the count of yielded ids reaches a positive
\* --max, and in no other; and every query behind a yield is made with the
\* id yielded last as its lower bound.
C19_EnumeratorStops ==
  /\ <>(eng[1].pc = "summary")
  /\ [][LET e == eng[1]
            f == eng'[1]
        IN  /\ (e.pc # "summary" /\ f.pc = "summary") <=>
                 \/ e.pc = "query" /\ wiql_parents(src, e.last_id) = << >>
                 \/ /\ e.pc = "get_parent"
                    /\ args.max_items > 0 /\ e.fetched + 1 >= args.max_items
            /\ e.pc = "summary" => f.pc = "summary"
            /\ (e.pc = "get_parent" /\ f.pc = "query") => f.last_id = e.pid
            /\ (e.pc = "get_parent" /\ f.pc = "get_parent") => f.last_id = e.pid]_vars

\* The generator has returned on an empty page, the fourth it asked for,
\* after it yielded three ids one page each.
C19_Witness ==
  /\ eng[1].pc = "summary" /\ eng[1].fetched = 3 /\ eng[1].last_id = 3
  /\ args.max_items = 0 /\ src.limit = 1 /\ args.start_id = 0

\* The source ids a work item's relations name with a Hierarchy-Forward or
\* a Related link.
DirectLinks(r) == HierarchyChildren(r) \cup RelatedLinked(r)

\* C20: the engine takes up only enumerated roots and ids that a relation
\* of the root in process names with a Hierarchy-Forward or Related link:
\* in every step the root it turns to is an enumerated root, the ids it
\* takes from the relations, the id it works on, the decisions it adds and
\* the writes it makes concern the root or such ids, it has decided on no
\* more linked ids per root than the root has direct links, and after a
\* write an item that is no root and is linked to no root is neither
\* created nor the endpoint of a link.
C20_TwoLevelTraversal ==
  [][/\ \A i \in Instances :
          LET e == eng[i]
              f == eng'[i]
          IN  /\ (f.pid # e.pid /\ f.pid # 0) => f.pid \in Roots
              /\ (f.children # e.children \/ f.related # e.related) =>
                   /\ f.pid # 0 \/ f.children \cup f.related = {}
                   /\ f.pid # 0 => f.children \cup f.related \subseteq DirectLinks(f.pid)
              /\ (f.cur # e.cur /\ f.cur # 0) =>
                   f.pid # 0 /\ f.cur \in DirectLinks(f.pid)
              /\ f.dec # e.dec =>
                   /\ \A d \in f.dec \ e.dec :
                        /\ d[2] \in Roots
                        /\ IF d[1] = "parent" THEN d[3] = d[2]
                           ELSE d[3] \in DirectLinks(d[2])
                   /\ \A r \in SrcIds :
                        Cardinality({d \in f.dec : d[2] = r /\ d[1] # "parent"})
                          <= Cardinality(DirectLinks(r))
     /\ writes' # writes =>
          /\ \A w \in writes' \ writes :
               /\ w.root \in Roots
               /\ IF w.role = "parent" THEN w.sid = w.root
                  ELSE w.sid \in DirectLinks(w.root)
          /\ \A sid \in SrcIds :
               (sid \notin Roots /\ \A r \in Roots : sid \notin DirectLinks(r)) =>
                 NeverCreatedNorLinked(sid)']_vars

\* A non-dry run has ended with its summary on a root whose story holds a
\* link to item 3 and, in a cycle, the Related link back to the root: the
\* story has a counterpart, item 3 has none.
C20_Witness ==
  \E i \in Instances :
    /\ eng[i].pc = "done" /\ ~eng[i].dry
    /\ src.type[2] = "User Story" /\ src.type[3] = "issue"
    /\ 2 \in RelatedLinked(1) /\ 1 \in RelatedLinked(2)
    /\ 3 \in DirectLinks(2) /\ 3 \notin DirectLinks(1)
    /\ Holders(2) # {} /\ Holders(3) = {}

\* The texts get_comments yields for a source item: those of its discussion
\* thread or, when the discussion requests fail, those of its revisions.
CommentTexts(sid) == {TextsOf(get_comments(sid, ok)) : ok \in BOOLEAN}

\* C21: when the first run, not a dry run and with --with-comments, has
\* ended with its summary, every target item that holds the correlation
\* value of a root, child or related item the run resolved or created has
\* as its history notes exactly the non-empty texts of the source item's
\* comment entries, once each and in source order.
C21_CommentCoverage ==
  \A i \in Instances :
    (eng[i].pc = "done" /\ ~eng[i].dry /\ args.with_comments /\ runs = 1) =>
      \A d \in eng[i].dec :
        \A t \in Holders(d[3]) : target[t].history \in CommentTexts(d[3])

\* The requests of the call so far that went to a comments url, and those
\* among them that were answered.
DiscussionRequests == {k \in 1..Len(call.requests) : call.requests[k].url # rev_url}
Answered == {k \in DiscussionRequests : call.requests[k].ok}

\* C22: get_comments asks the revisions url only after a request to each of
\* the comments urls has failed; when a comments request is answered the
\* call returns that request's comment list as it is, the empty list too,
\* and no revisions request is made; when none is answered it returns one
\* entry per revision that carries a history text, in revision order; and
\* it raises exactly when the revisions request fails.
C22_CommentFallback ==
  LET reqs == call.requests
      revs == {k \in 1..Len(reqs) : reqs[k].url = rev_url}
  IN  call.pc \in {"comments", "revisions", "returned", "raised"} =>
        /\ revs # {} =>
             /\ Answered = {}
             /\ \A u \in 1..Len(candidates) :
                  \E k \in DiscussionRequests : k < Len(reqs) /\ reqs[k].url = candidates[u]
             /\ revs = {Len(reqs)}
        /\ Answered # {} =>
             /\ call.pc = "returned" /\ call.result = call.thread
             /\ Answered = {Len(reqs)}
        /\ (call.pc = "returned" /\ Answered = {}) =>
             /\ revs # {} /\ reqs[Len(reqs)].ok
             /\ \A j \in 1..Len(call.result) : call.result[j].text # ""
             /\ [j \in 1..Len(call.result) |-> call.result[j].text]
                  = SelectSeq(call.value, LAMBDA h : h \in {"h", "g"})
        /\ call.pc = "raised" <=> (revs # {} /\ ~reqs[Len(reqs)].ok)
        /\ call.pc = "revisions" => Len(reqs) = Len(candidates) /\ revs = {}

\* get_comments has returned the empty list of the second comments url,
\* after the first failed, for a work item whose revisions carry texts.
C22_Witness ==
  /\ call.pc = "returned" /\ call.result = << >> /\ call.thread = << >>
  /\ call.value = <<"h", "g">>
  /\ call.requests = <<[url |-> candidates[1], ok |-> FALSE],
                        [url |-> candidates[2], ok |-> TRUE]>>

\* C23: remap_root returns the target root followed by the segments of the
\* source path, all of them and in order, except that a first segment equal
\* to the source root label, compared without case, is left out (the target
\* root stands in its place); an absent or empty path has no segment.
C23_RemapCases ==
  call.pc = "returned" /\ "tgt_root" \in DOMAIN call =>
    LET segs == IF call.src_path = <<"">> THEN << >> ELSE call.src_path
        n == Len(call.tgt_root)
        rest == SubSeq(call.result, n + 1, Len(call.result))
        first_is_root == /\ segs # << >> /\ Len(call.src_root) = 1
                         /\ Lower(segs[1]) = Lower(call.src_root[1])
    IN  /\ Len(call.result) >= n
        /\ SubSeq(call.result, 1, n) = call.tgt_root
        /\ first_is_root => rest = SubSeq(segs, 2, Len(segs))
        /\ ~first_is_root => rest = segs

\* remap_root has returned for a path whose first segment is not the source
\* root and whose last segment is: the whole path stands under the target
\* root.
C23_Witness ==
  /\ call.pc = "returned" /\ "tgt_root" \in DOMAIN call
  /\ call.src_path = <<"TeamA", "", "Src">> /\ call.src_root = <<"Src">>
  /\ call.tgt_root = <<"Tgt">>
  /\ call.result = <<"Tgt", "TeamA", "", "Src">>

\* C24: the create patch of every entity the engine created carries no
\* description and no tags of an empty value (a field the source item lacks
\* or holds empty is left out of the patch), and carries a title: the
\* source title, or "Migrated <source id>" when the source item has none.
C24_EmptyFieldsOmitted ==
  \A w \in Creates :
    LET patch == target[w.tgt].fields
        f == SrcFields(w.sid)
    IN  /\ \A k \in {"System.Description", "System.Tags"} :
             k \in DOMAIN patch => patch[k] # ""
        /\ "System.Title" \in DOMAIN patch
        /\ patch["System.Title"] =
             IF "System.Title" \in DOMAIN f THEN f["System.Title"]
             ELSE "Migrated " \o ToString(w.sid)

====
